---- MODULE Spec2Model ----
(***************************************************************************)
(* Model of Sources/CLCLWebSocketZlib/include/CLCLWebSocketZlib.h: three   *)
(* static inline wrappers around zlib.                                     *)
(*                                                                         *)
(*   CLCLWebSocketZlib_deflateInit2        -> deflateInit2 (zlib macro)     *)
(*   CLCLWebSocketZlib_inflateInit2        -> inflateInit2 (zlib macro)     *)
(*   CLCLWebSocketZlib_voidPtr_to_BytefPtr -> cast to pointer-to-Bytef      *)
(*                                                                         *)
(* zlib itself is an external library, brought in by `#include <zlib.h>`.   *)
(* Its two entry points are modelled after zlib's own behaviour            *)
(* (deflateInit2_ in deflate.c, inflateInit2_/inflateReset2 in inflate.c): *)
(* the version check, the null-handle check, the fields of z_stream they   *)
(* write before validating, the parameter validation, and the allocation   *)
(* failures.  The outcome of the allocator and the version of the linked   *)
(* library are choices of the environment.                                 *)
(*                                                                         *)
(* A "world" is everything a C call can read or change: the stream         *)
(* handles, the byte memory, the environment, plus two observation logs    *)
(* (the library entry points entered, the byte addresses touched).         *)
(***************************************************************************)
EXTENDS Integers, Sequences, FiniteSets, TLC

\* ------------------------------------------------------------- bounds
\* number of z_stream objects the caller owns (handles 1..NumStreams)
NumStreams == 2
\* number of byte addresses of caller memory (addresses 1..NumAddrs)
NumAddrs == 2

\* ------------------------------------------------------- zlib.h names
Z_NULL == 0
Z_OK == 0
Z_STREAM_ERROR == -2
Z_MEM_ERROR == -4
Z_VERSION_ERROR == -6
Z_DEFAULT_COMPRESSION == -1
Z_DEFLATED == 8
Z_FIXED == 4
MAX_MEM_LEVEL == 9
\* first character of the ZLIB_VERSION string the header was compiled against
ZLIB_VERSION == "1"

\* --------------------------------------------------------- the inputs
Streams == 1..NumStreams
\* a z_streamp argument: a handle or the null pointer
StreamPtrs == {Z_NULL} \cup Streams
Addrs == 1..NumAddrs
\* a void * argument: an address or the null pointer
VoidPtrs == {Z_NULL} \cup Addrs
\* int arguments: for each parameter, values inside and outside zlib's range
Levels == {Z_DEFAULT_COMPRESSION, 1, 10}
Methods == {Z_DEFLATED, 0}
WindowBits == {-16, -15}
MemLevels == {MAX_MEM_LEVEL, 10}
Strategies == {0, 5}
\* a call every parameter of which zlib accepts
BaseArgs == <<1, Z_DEFLATED, -15, MAX_MEM_LEVEL, 0>>
\* the deflate argument tuples tried: BaseArgs with at most one parameter replaced
DeflateArgs ==
    {a \in Levels \X Methods \X WindowBits \X MemLevels \X Strategies :
        Cardinality({i \in 1..5 : a[i] # BaseArgs[i]}) <= 1}
\* what the allocator does during one library call: deflateInit2_ allocates
\* its state and then its window buffers, inflateInit2_ only its state
DeflateAllocs == {"ok", "state_fails", "window_fails"}
InflateAllocs == {"ok", "state_fails"}
\* first character of the version of the zlib the program is linked with
LibVersions == {"1", "2"}

\* ---------------------------------------------------- z_stream values
\* the fields of z_stream the init entry points write
NoState == [kind |-> "Z_NULL"]
Zeroed == [msg |-> "Z_NULL", zalloc |-> "Z_NULL", state |-> NoState]
\* a handle reused after an initialization that ran out of memory
Stale == [msg |-> "insufficient memory", zalloc |-> "zcalloc", state |-> NoState]
InitialStreams == {Zeroed, Stale}

VARIABLES
    strms,      \* handle -> z_stream, as the wrappers' calls left them
    mem,        \* address -> byte
    my_version, \* version of the linked zlib (environment)
    ret,        \* what the last wrapper call returned
    libcalls,   \* the library entry points the last wrapper call entered
    librets,    \* what each of them returned
    touched,    \* byte addresses the last wrapper call read or wrote
    last,       \* the last wrapper call: its name and arguments
    dirStrms,   \* handle -> z_stream, had the last call been made directly
    dirRet,     \* what the last call, made directly, would have returned
    refStrms,   \* handle -> z_stream of a second run: every call made directly
    refRet      \* what the second run's last library call returned

vars == <<strms, mem, my_version, ret, libcalls, librets, touched, last,
          dirStrms, dirRet, refStrms, refRet>>

\* ------------------------------------------------------------ worlds
World(S, M, V, alloc) ==
    [strms |-> S, mem |-> M, my_version |-> V, alloc |-> alloc,
     ret |-> Z_OK, calls |-> <<>>, rets |-> <<>>, touched |-> {}]

\* a library entry point is entered with its arguments, and returns a status
Entered(w, call) == [w EXCEPT !.calls = Append(@, call)]
Return(w, r) == [w EXCEPT !.ret = r, !.rets = Append(@, r)]

\* ----------------------------------------------------- zlib: deflate
\* deflateInit2_: strm->msg and the default allocator are written before
\* the parameters are validated; strm->state is written only on success or
\* when the window allocation fails (deflateEnd then clears it).
deflateInit2_(w0, strm, level0, method, windowBits0, memLevel, strategy, version) ==
    LET w == Entered(w0, [fn |-> "deflateInit2", strm |-> strm, level |-> level0,
                          method |-> method, windowBits |-> windowBits0,
                          memLevel |-> memLevel, strategy |-> strategy])
    IN  IF version # w.my_version THEN Return(w, Z_VERSION_ERROR)
        ELSE IF strm = Z_NULL THEN Return(w, Z_STREAM_ERROR)
        ELSE
        LET s1 == [w.strms[strm] EXCEPT !.msg = "Z_NULL",
                                        !.zalloc = IF @ = "Z_NULL" THEN "zcalloc" ELSE @]
            w1 == [w EXCEPT !.strms[strm] = s1]
            level == IF level0 = Z_DEFAULT_COMPRESSION THEN 6 ELSE level0
            tooNegative == windowBits0 < -15
            wrap == IF windowBits0 < 0 THEN 0 ELSE IF windowBits0 > 15 THEN 2 ELSE 1
            windowBits == IF windowBits0 < 0 THEN -windowBits0
                          ELSE IF windowBits0 > 15 THEN windowBits0 - 16
                          ELSE windowBits0
        IN  IF tooNegative THEN Return(w1, Z_STREAM_ERROR)
            ELSE IF \/ memLevel < 1 \/ memLevel > MAX_MEM_LEVEL
                    \/ method # Z_DEFLATED
                    \/ windowBits < 8 \/ windowBits > 15
                    \/ level < 0 \/ level > 9
                    \/ strategy < 0 \/ strategy > Z_FIXED
                    \/ (windowBits = 8 /\ wrap # 1)
                 THEN Return(w1, Z_STREAM_ERROR)
            ELSE IF w.alloc = "state_fails" THEN Return(w1, Z_MEM_ERROR)
            ELSE IF w.alloc = "window_fails"
                 THEN Return([w1 EXCEPT !.strms[strm].msg = "insufficient memory",
                                        !.strms[strm].state = NoState],
                             Z_MEM_ERROR)
            ELSE Return([w1 EXCEPT !.strms[strm].state =
                            [kind |-> "deflate", wrap |-> wrap,
                             w_bits |-> IF windowBits = 8 THEN 9 ELSE windowBits,
                             level |-> level, hash_bits |-> memLevel + 7,
                             strategy |-> strategy]],
                        Z_OK)

\* the deflateInit2 macro of zlib.h: it adds the header's version
deflateInit2(w, strm, level, method, windowBits, memLevel, strategy) ==
    deflateInit2_(w, strm, level, method, windowBits, memLevel, strategy, ZLIB_VERSION)

\* ----------------------------------------------------- zlib: inflate
\* inflateInit2_: the state is allocated and attached first, then
\* inflateReset2 validates windowBits; on its error the state is freed and
\* strm->state is cleared.
inflateInit2_(w0, strm, windowBits0, version) ==
    LET w == Entered(w0, [fn |-> "inflateInit2", strm |-> strm,
                          windowBits |-> windowBits0])
    IN  IF version # w.my_version THEN Return(w, Z_VERSION_ERROR)
        ELSE IF strm = Z_NULL THEN Return(w, Z_STREAM_ERROR)
        ELSE
        LET s1 == [w.strms[strm] EXCEPT !.msg = "Z_NULL",
                                        !.zalloc = IF @ = "Z_NULL" THEN "zcalloc" ELSE @]
            w1 == [w EXCEPT !.strms[strm] = s1]
            tooNegative == windowBits0 < -15
            wrap == IF windowBits0 < 0 THEN 0 ELSE (windowBits0 \div 16) + 5
            windowBits == IF windowBits0 < 0 THEN -windowBits0
                          ELSE IF windowBits0 < 48 THEN windowBits0 % 16
                          ELSE windowBits0
        IN  IF w.alloc # "ok" THEN Return(w1, Z_MEM_ERROR)
            ELSE IF \/ tooNegative
                    \/ (windowBits # 0 /\ (windowBits < 8 \/ windowBits > 15))
                 THEN Return([w1 EXCEPT !.strms[strm].state = NoState], Z_STREAM_ERROR)
            ELSE Return([w1 EXCEPT !.strms[strm].state =
                            [kind |-> "inflate", wrap |-> wrap, wbits |-> windowBits]],
                        Z_OK)

\* the inflateInit2 macro of zlib.h
inflateInit2(w, strm, windowBits) ==
    inflateInit2_(w, strm, windowBits, ZLIB_VERSION)

\* ------------------------------------------------------ the wrappers
\* (each wrapper is preceded by the faulty variants its properties are
\* tested against)

\* fault: windowBits and memLevel handed over in each other's position
deflateInit2_swapped(w, strm, level, method, windowBits, memLevel, strategy) ==
    deflateInit2(w, strm, level, method, memLevel, windowBits, strategy)

\* fault: a failed initialization is tried again with zlib's defaults
deflateInit2_retrying(w, strm, level, method, windowBits, memLevel, strategy) ==
    LET r == deflateInit2(w, strm, level, method, windowBits, memLevel, strategy)
    IN  IF r.ret # Z_OK
        THEN deflateInit2(r, strm, Z_DEFAULT_COMPRESSION, Z_DEFLATED, 15, 8, 0)
        ELSE r

\* fault: every call works on one stream object shared by all callers
deflateInit2_shared(w, strm, level, method, windowBits, memLevel, strategy) ==
    deflateInit2(w, IF strm = Z_NULL THEN Z_NULL ELSE 1,
                 level, method, windowBits, memLevel, strategy)

\* fault: the library is initialized once per process; later calls are skipped
deflateInit2_once(w, strm, level, method, windowBits, memLevel, strategy) ==
    IF \E h \in Streams : w.strms[h].state.kind # "Z_NULL"
    THEN [w EXCEPT !.ret = Z_OK]
    ELSE deflateInit2(w, strm, level, method, windowBits, memLevel, strategy)

CLCLWebSocketZlib_deflateInit2(w, strm, level, method, windowBits, memLevel, strategy) ==
    deflateInit2(w, strm, level, method, windowBits, memLevel, strategy)

\* fault: the sign of windowBits is dropped (raw streams become zlib streams)
inflateInit2_unsigned(w, strm, windowBits) ==
    inflateInit2(w, strm, IF windowBits < 0 THEN -windowBits ELSE windowBits)

\* fault: the wrapper checks its arguments itself and answers for the library
inflateInit2_validating(w, strm, windowBits) ==
    IF strm = Z_NULL \/ windowBits < -15
    THEN [w EXCEPT !.ret = Z_STREAM_ERROR]
    ELSE inflateInit2(w, strm, windowBits)

CLCLWebSocketZlib_inflateInit2(w, strm, windowBits) ==
    inflateInit2(w, strm, windowBits)

\* a pointer value is an address with a static type; the cast keeps the address
VoidPtr(a) == [addr |-> a, type |-> "void"]

\* fault: the buffer is cleared through the pointer before it is handed back
voidPtr_to_BytefPtr_clearing(w, in) ==
    [w EXCEPT !.ret = [addr |-> in.addr, type |-> "Bytef"],
              !.mem = [a \in Addrs |-> IF a = in.addr THEN 0 ELSE @[a]],
              !.touched = @ \cup ({in.addr} \cap Addrs)]

CLCLWebSocketZlib_voidPtr_to_BytefPtr(w, in) ==
    [w EXCEPT !.ret = [addr |-> in.addr, type |-> "Bytef"]]

\* -------------------------------------------------------- the machine
Init ==
    /\ strms \in [Streams -> InitialStreams]
    /\ mem = [a \in Addrs |-> a % 2]
    /\ my_version \in LibVersions
    /\ ret = Z_OK
    /\ libcalls = <<>>
    /\ librets = <<>>
    /\ touched = {}
    /\ last = [op |-> "none"]
    /\ dirStrms = strms
    /\ dirRet = Z_OK
    /\ refStrms = strms
    /\ refRet = Z_OK

\* what a finished call leaves in the program's variables
Finish(r) ==
    /\ strms' = r.strms
    /\ mem' = r.mem
    /\ ret' = r.ret
    /\ libcalls' = r.calls
    /\ librets' = r.rets
    /\ touched' = r.touched
    /\ UNCHANGED my_version

DeflateInit2 ==
    \E strm \in StreamPtrs, a \in DeflateArgs, alloc \in DeflateAllocs :
        LET level == a[1]
            method == a[2]
            windowBits == a[3]
            memLevel == a[4]
            strategy == a[5]
            r == CLCLWebSocketZlib_deflateInit2(World(strms, mem, my_version, alloc),
                     strm, level, method, windowBits, memLevel, strategy)
            \* the same call made directly: from the same starting state, and in the
            \* second run
            d == deflateInit2(World(strms, mem, my_version, alloc),
                     strm, level, method, windowBits, memLevel, strategy)
            d2 == deflateInit2(World(refStrms, mem, my_version, alloc),
                     strm, level, method, windowBits, memLevel, strategy)
        IN  /\ Finish(r)
            /\ last' = [op |-> "deflateInit2", strm |-> strm, level |-> level,
                        method |-> method, windowBits |-> windowBits,
                        memLevel |-> memLevel, strategy |-> strategy]
            /\ dirStrms' = d.strms
            /\ dirRet' = d.ret
            /\ refStrms' = d2.strms
            /\ refRet' = d2.ret

InflateInit2 ==
    \E strm \in StreamPtrs, windowBits \in WindowBits, alloc \in InflateAllocs :
        LET r == CLCLWebSocketZlib_inflateInit2(World(strms, mem, my_version, alloc),
                     strm, windowBits)
            d == inflateInit2(World(strms, mem, my_version, alloc), strm, windowBits)
            d2 == inflateInit2(World(refStrms, mem, my_version, alloc), strm, windowBits)
        IN  /\ Finish(r)
            /\ last' = [op |-> "inflateInit2", strm |-> strm, windowBits |-> windowBits]
            /\ dirStrms' = d.strms
            /\ dirRet' = d.ret
            /\ refStrms' = d2.strms
            /\ refRet' = d2.ret

\* the cast has no library counterpart: made directly, nothing is called
VoidPtrToBytefPtr ==
    \E a \in VoidPtrs :
        LET r == CLCLWebSocketZlib_voidPtr_to_BytefPtr(World(strms, mem, my_version, "ok"),
                     VoidPtr(a))
        IN  /\ Finish(r)
            /\ last' = [op |-> "voidPtr_to_BytefPtr", in |-> VoidPtr(a)]
            /\ dirStrms' = strms
            /\ UNCHANGED <<dirRet, refStrms, refRet>>

Next == DeflateInit2 \/ InflateInit2 \/ VoidPtrToBytefPtr

Spec == Init /\ [][Next]_vars

\* ------------------------------------------------------- properties
InitOps == {"deflateInit2", "inflateInit2"}
DeflateCall == [fn |-> "deflateInit2", strm |-> last.strm, level |-> last.level,
                method |-> last.method, windowBits |-> last.windowBits,
                memLevel |-> last.memLevel, strategy |-> last.strategy]
InflateCall == [fn |-> "inflateInit2", strm |-> last.strm,
                windowBits |-> last.windowBits]
\* the handles with every handle but h zero-filled
OnlyHandle(S, h) == [k \in Streams |-> IF k = h THEN S[k] ELSE Zeroed]

\* C1: after a call of CLCLWebSocketZlib_deflateInit2, the return value and
\* every stream handle are what a direct call of deflateInit2 with the same
\* six arguments, from the same starting state and with the same allocator
\* outcome, returns and leaves (for every argument tuple tried, the valid
\* ones included).
DeflateInit2PassThrough ==
    last.op = "deflateInit2" => ret = dirRet /\ strms = dirStrms

\* C1 happens: a valid call on a handle succeeded and built a raw deflate state
DeflateInit2Succeeded ==
    /\ last.op = "deflateInit2"
    /\ last.strm \in Streams
    /\ <<last.level, last.method, last.windowBits, last.memLevel, last.strategy>> = BaseArgs
    /\ ret = Z_OK
    /\ strms[last.strm].state.kind = "deflate"
    /\ strms[last.strm].state.wrap = 0

\* C2: after a call of CLCLWebSocketZlib_inflateInit2, the return value and
\* every stream handle are what a direct call of inflateInit2 with the same
\* two arguments, from the same starting state and with the same allocator
\* outcome, returns and leaves.
InflateInit2PassThrough ==
    last.op = "inflateInit2" => ret = dirRet /\ strms = dirStrms

\* C2 happens: a valid call on a handle succeeded and built a raw inflate state
InflateInit2Succeeded ==
    /\ last.op = "inflateInit2"
    /\ last.strm \in Streams
    /\ last.windowBits = -15
    /\ ret = Z_OK
    /\ strms[last.strm].state = [kind |-> "inflate", wrap |-> 0, wbits |-> 15]

\* C3: a wrapper call enters its library entry point exactly once, and when
\* that call returns an error status the wrapper returns exactly that status
\* and the stream handles are as the library's call left them.
ErrorsForwardedOnce ==
    last.op \in InitOps =>
        /\ Len(libcalls) = 1
        /\ Len(librets) = 1
        /\ libcalls[1].fn = last.op
        /\ librets[1] # Z_OK => ret = librets[1] /\ strms = dirStrms

\* C3 happens: deflateInit2 ran out of memory for its window, left its message
\* in the handle, and the wrapper returned Z_MEM_ERROR
MemErrorForwarded ==
    /\ last.op = "deflateInit2"
    /\ last.strm \in Streams
    /\ librets = <<Z_MEM_ERROR>>
    /\ ret = Z_MEM_ERROR
    /\ last.level = Z_DEFAULT_COMPRESSION
    /\ strms[last.strm].msg = "insufficient memory"

\* C4: the library is entered with exactly the wrapper's arguments, each in
\* its own position, whatever their values (out of range, null handle), and
\* the wrapper's status is the one the library returned: the wrapper never
\* answers without calling.
ArgumentsUnchanged ==
    /\ last.op = "deflateInit2" => libcalls = <<DeflateCall>>
    /\ last.op = "inflateInit2" => libcalls = <<InflateCall>>
    /\ last.op \in InitOps => librets # <<>> /\ ret = librets[Len(librets)]

\* C4 happens: a null handle and an out-of-range level reached the library,
\* which rejected the call
NullAndOutOfRangeForwarded ==
    /\ last.op = "deflateInit2"
    /\ last.strm = Z_NULL
    /\ last.level = 10
    /\ libcalls = <<DeflateCall>>
    /\ ret = Z_STREAM_ERROR

\* C5: a call of CLCLWebSocketZlib_voidPtr_to_BytefPtr returns a pointer to
\* Bytef with the address of its input (null included), touches no byte,
\* enters no library function, and leaves the bytes and every stream handle
\* unchanged.
CastKeepsAddressAndMemory ==
    [][last'.op = "voidPtr_to_BytefPtr" =>
          /\ ret'.addr = last'.in.addr
          /\ ret'.type = "Bytef"
          /\ touched' = {}
          /\ libcalls' = <<>>
          /\ mem' = mem
          /\ strms' = strms]_vars

\* C5 happens: a pointer to a nonzero byte was cast while a stream was live
CastOfLiveBuffer ==
    /\ last.op = "voidPtr_to_BytefPtr"
    /\ last.in.addr \in Addrs
    /\ mem[last.in.addr] = 1
    /\ ret.addr = last.in.addr
    /\ \E h \in Streams : strms[h].state.kind # "Z_NULL"

\* C6: a call of an init wrapper on one handle leaves every other handle and
\* every byte unchanged, and the handles afterwards are exactly what the
\* library's entry point, called directly, leaves.
NoSharedState ==
    [][last'.op \in InitOps =>
          /\ \A h \in Streams \ {last'.strm} : strms'[h] = strms[h]
          /\ mem' = mem
          /\ touched' = {}
          /\ strms' = dirStrms']_vars

\* C6 happens: handle 2 was initialized while handle 1 holds a live state of
\* the other kind
OtherHandleLive ==
    /\ last.op = "inflateInit2"
    /\ last.strm = 2
    /\ ret = Z_OK
    /\ strms[1].state.kind = "deflate"
    /\ strms[2].state.kind = "inflate"

\* C7: the run of wrapper calls and the run of the same calls made directly
\* on the library are in the same state after every step and returned the
\* same status at every init call; and the outcome of an init call is the
\* outcome of the library on its arguments and the handle passed in alone
\* (every other handle zero-filled), under some outcome of the allocator.
HistoryIndependent ==
    /\ [](strms = refStrms /\ (last.op \in InitOps => ret = refRet))
    /\ [][last'.op = "deflateInit2" =>
            \E alloc \in DeflateAllocs :
                LET d == deflateInit2(
                             World(OnlyHandle(strms, last'.strm), mem, my_version, alloc),
                             last'.strm, last'.level, last'.method, last'.windowBits,
                             last'.memLevel, last'.strategy)
                IN  /\ ret' = d.ret
                    /\ last'.strm \in Streams =>
                           strms'[last'.strm] = d.strms[last'.strm]]_vars
    /\ [][last'.op = "inflateInit2" =>
            \E alloc \in InflateAllocs :
                LET d == inflateInit2(
                             World(OnlyHandle(strms, last'.strm), mem, my_version, alloc),
                             last'.strm, last'.windowBits)
                IN  /\ ret' = d.ret
                    /\ last'.strm \in Streams =>
                           strms'[last'.strm] = d.strms[last'.strm]]_vars

\* C7 happens: handle 1 was initialized for deflate after handle 2 had been
\* initialized for inflate, in both runs
ReinitializedAfterHistory ==
    /\ last.op = "deflateInit2"
    /\ last.strm = 1
    /\ ret = Z_OK
    /\ strms[1].state.kind = "deflate"
    /\ strms[2].state.kind = "inflate"
    /\ refStrms[1].state.kind = "deflate"
    /\ refStrms[2].state.kind = "inflate"

====
